---- MODULE Spec2Model ----
(***************************************************************************)
(* Model of zotero_to_neo4j.py: ZoteroToNeo4jImporter.parse_csv,           *)
(* _parse_extra_info, _split_authors, _split_tags, import_to_neo4j,        *)
(* _import_paper and _add_extra_nodes, run against a property graph that   *)
(* implements the Cypher statements the importer sends.                    *)
(*                                                                         *)
(* A Python str is a sequence of symbols.  A symbol is one character       *)
(* (" ", "\n", ";", "1", "a", ...) or an opaque atom standing for a run of *)
(* characters that the code never looks inside ("k1", "journalArticle").   *)
(* The three marker literals of _parse_extra_info are the atoms            *)
(* "download:", "CNKICite:" and "major:".                                  *)
(***************************************************************************)
EXTENDS Integers, Sequences, FiniteSets, TLC

VARIABLES raw, df, phase, idx, total, clearFlag, runsLeft, flaky,
          nodes, edges, props, nextId, clock,
          attempted, failed, applied, progress, written,
          reported, snap, faulted

vars == <<raw, df, phase, idx, total, clearFlag, runsLeft, flaky,
          nodes, edges, props, nextId, clock,
          attempted, failed, applied, progress, written,
          reported, snap, faulted>>

-----------------------------------------------------------------------------
(* Bounds of the model *)

MaxRows == 2
MaxRuns == 2
MaxExtraLen == 3
MaxManualLen == 3
MaxAutoLen == 1

(* Program constants *)

AbstractLimit == 500
ProgressEvery == 10

-----------------------------------------------------------------------------
(* Python values *)

\* float('nan'): what pandas.read_csv puts in an empty cell
NaN == <<"float:nan">>
\* None: what Series.get(col) returns for an absent column
None == <<"NoneType:None">>
EmptyStr == <<>>
\* True, False
PyBool(b) == IF b THEN <<"bool:True">> ELSE <<"bool:False">>

IsStr(v) == v # NaN /\ v # None
\* bool(v): nan is truthy, None and '' are falsy
Truthy(v) == v = NaN \/ (v # None /\ Len(v) > 0)
\* pd.notna(v)
NotNa(v) == v # NaN /\ v # None

IsSpace(c) == c \in {" ", "\n"}
IsDigit(c) == c \in {"0", "1", "2", "3", "4", "5", "6", "7", "8", "9"}

Min(a, b) == IF a <= b THEN a ELSE b

\* s[:n]
Prefix(s, n) == SubSeq(s, 1, Min(Len(s), n))

RECURSIVE LStrip(_)
LStrip(s) ==
    IF s # <<>> /\ IsSpace(Head(s)) THEN LStrip(Tail(s)) ELSE s

RECURSIVE RStrip(_)
RStrip(s) ==
    IF s # <<>> /\ IsSpace(s[Len(s)]) THEN RStrip(SubSeq(s, 1, Len(s) - 1)) ELSE s

\* str.strip()
Strip(s) == RStrip(LStrip(s))

\* str.split(sep): always at least one piece
RECURSIVE SplitAcc(_, _, _)
SplitAcc(s, sep, cur) ==
    IF s = <<>> THEN <<cur>>
    ELSE IF Head(s) = sep THEN <<cur>> \o SplitAcc(Tail(s), sep, <<>>)
    ELSE SplitAcc(Tail(s), sep, Append(cur, Head(s)))

Split(s, sep) == SplitAcc(s, sep, <<>>)

\* [x.strip() for x in pieces if x.strip()]
RECURSIVE StripNonEmpty(_)
StripNonEmpty(pieces) ==
    IF pieces = <<>> THEN <<>>
    ELSE IF Strip(Head(pieces)) # <<>>
         THEN <<Strip(Head(pieces))>> \o StripNonEmpty(Tail(pieces))
         ELSE StripNonEmpty(Tail(pieces))

Range(q) == {q[i] : i \in 1..Len(q)}

\* sub in s, for a one-symbol sub
Contains(s, c) == \E i \in 1..Len(s) : s[i] = c

-----------------------------------------------------------------------------
(* _split_authors, _split_tags *)

_split_authors(authors_str) ==
    IF ~Truthy(authors_str) \/ ~IsStr(authors_str) THEN <<>>
    ELSE StripNonEmpty(Split(authors_str, ";"))

_split_tags(tags_str) ==
    IF ~Truthy(tags_str) \/ ~IsStr(tags_str) THEN <<>>
    ELSE StripNonEmpty(Split(tags_str, ";"))

-----------------------------------------------------------------------------
(* dict values *)

EmptyDict == [k \in {} |-> 0]
Put(d, k, v) == (k :> v) @@ d
\* d.get(k, default)
Get(d, k, default) == IF k \in DOMAIN d THEN d[k] ELSE default
\* d.update(e)
Update(d, e) == e @@ d

-----------------------------------------------------------------------------
(* _parse_extra_info *)

\* first index >= j of s that is not whitespace, Len(s)+1 when there is none
RECURSIVE SkipSpace(_, _)
SkipSpace(s, j) ==
    IF j <= Len(s) /\ IsSpace(s[j]) THEN SkipSpace(s, j + 1) ELSE j

\* last index of the run of digits that starts at j
RECURSIVE DigitsEnd(_, _)
DigitsEnd(s, j) ==
    IF j + 1 <= Len(s) /\ IsDigit(s[j + 1]) THEN DigitsEnd(s, j + 1) ELSE j

\* last index of the run of non-newline symbols that starts at j
RECURSIVE LineEnd(_, _)
LineEnd(s, j) ==
    IF j + 1 <= Len(s) /\ s[j + 1] # "\n" THEN LineEnd(s, j + 1) ELSE j

\* group(1) of marker\s*(\d+) matched at position i, <<>> when it does not match there
NumberAt(s, i) ==
    LET e == SkipSpace(s, i + 1)
    IN  IF e <= Len(s) /\ IsDigit(s[e]) THEN SubSeq(s, e, DigitsEnd(s, e)) ELSE <<>>

\* group(1) of marker\s*([^\n]+) matched at position i, <<>> when it does not match there.
\* \s* is greedy and also eats newlines; when it reaches the end of the string it
\* gives symbols back until one that is not a newline is left for the group.
LineAt(s, i) ==
    LET e == SkipSpace(s, i + 1)
        back == {j \in (i + 1)..Len(s) : s[j] # "\n"}
        start == IF e <= Len(s) THEN e
                 ELSE IF back # {} THEN CHOOSE j \in back : \A k \in back : k <= j
                 ELSE 0
    IN  IF start = 0 THEN <<>> ELSE SubSeq(s, start, LineEnd(s, start))

\* re.search: the leftmost position where the pattern matches
RECURSIVE SearchNumberFrom(_, _, _)
SearchNumberFrom(s, marker, i) ==
    IF i > Len(s) THEN <<>>
    ELSE IF s[i] = marker /\ NumberAt(s, i) # <<>> THEN NumberAt(s, i)
    ELSE SearchNumberFrom(s, marker, i + 1)

RECURSIVE SearchLineFrom(_, _, _)
SearchLineFrom(s, marker, i) ==
    IF i > Len(s) THEN <<>>
    ELSE IF s[i] = marker /\ LineAt(s, i) # <<>> THEN LineAt(s, i)
    ELSE SearchLineFrom(s, marker, i + 1)

\* int(digits), as the value <<"int:", d1, ..., dn>> without leading zeros
RECURSIVE DropZeros(_)
DropZeros(ds) ==
    IF Len(ds) > 1 /\ Head(ds) = "0" THEN DropZeros(Tail(ds)) ELSE ds

ToInt(ds) == <<"int:">> \o DropZeros(ds)

\* lines 107-112. The function's only "import re" is inside this branch.
DownloadStep(s, info) ==
    IF Contains(s, "download:") /\ SearchNumberFrom(s, "download:", 1) # <<>>
    THEN Put(info, "download_count", ToInt(SearchNumberFrom(s, "download:", 1)))
    ELSE info

\* lines 115-118
CiteStep(s, info) ==
    IF SearchNumberFrom(s, "CNKICite:", 1) # <<>>
    THEN Put(info, "cnki_citation", ToInt(SearchNumberFrom(s, "CNKICite:", 1)))
    ELSE info

\* lines 121-124
MajorStep(s, info) ==
    IF SearchLineFrom(s, "major:", 1) # <<>>
    THEN Put(info, "major_field", Strip(SearchLineFrom(s, "major:", 1)))
    ELSE info

\* "re" is a local name of _parse_extra_info, bound only once line 109 has run;
\* using it unbound raises UnboundLocalError, which line 126 catches, and line 129
\* returns info_dict as filled so far.
ReBound(s) == Contains(s, "download:")

_parse_extra_info(extra_str) ==
    IF ~IsStr(extra_str) THEN EmptyDict
    ELSE LET d == DownloadStep(extra_str, EmptyDict)
         IN  IF Contains(extra_str, "CNKICite:") /\ ~ReBound(extra_str) THEN d
             ELSE LET c == IF Contains(extra_str, "CNKICite:")
                           THEN CiteStep(extra_str, d) ELSE d
                  IN  IF Contains(extra_str, "major:") /\ ~ReBound(extra_str) THEN c
                      ELSE IF Contains(extra_str, "major:")
                           THEN MajorStep(extra_str, c) ELSE c

-----------------------------------------------------------------------------
(* The graph store: the Cypher statements of _import_paper and               *)
(* _add_extra_nodes, and of import_to_neo4j's wipe.                          *)
(* A graph g is [nodes, edges, props, nextId, wnodes, wedges]: nodes are     *)
(* [id, label], edges [id, type, src, dst], props[id] the node's             *)
(* property map, and wnodes, wedges the nodes and edges that the statements  *)
(* run so far have matched or created.                                       *)

EmptyGraph ==
    [nodes |-> {}, edges |-> {}, props |-> EmptyDict, nextId |-> 1, wnodes |-> {}, wedges |-> {}]

\* Cypher's = on property values: NaN equals nothing, itself included
CypherEq(a, b) == a # NaN /\ b # NaN /\ a = b

\* MATCH (n:label {prop: val})
Match(g, label, prop, val) ==
    {n \in g.nodes : /\ n.label = label
                     /\ prop \in DOMAIN g.props[n.id]
                     /\ CypherEq(g.props[n.id][prop], val)}

\* SET n += map on one property map: a null value removes the property
SetMap(old, map) ==
    LET keep == {k \in DOMAIN map : map[k] # None}
        drop == DOMAIN map \ keep
    IN  [k \in (DOMAIN old \ drop) \cup keep |-> IF k \in keep THEN map[k] ELSE old[k]]

\* SET n += map for every n of ns
SetProps(g, ns, map) ==
    [g EXCEPT !.props = [i \in DOMAIN g.props |->
                            IF \E n \in ns : n.id = i THEN SetMap(g.props[i], map)
                            ELSE g.props[i]]]

\* MERGE (n:label {prop: val}): the nodes it matches, or else one it creates
MergeNode(g, label, prop, val) ==
    LET found == Match(g, label, prop, val)
        fresh == [id |-> g.nextId, label |-> label]
    IN  IF found # {}
        THEN [g |-> [g EXCEPT !.wnodes = @ \cup found], bound |-> found]
        ELSE [g |-> [g EXCEPT !.nodes = @ \cup {fresh},
                              !.props = (g.nextId :> (prop :> val)) @@ @,
                              !.nextId = @ + 1,
                              !.wnodes = @ \cup {fresh}],
              bound |-> {fresh}]

\* MERGE (s)-[:type]->(d) for one bound pair: the edges it matches, or else one it creates
MergeRelPair(g, type, s, d) ==
    LET found == {e \in g.edges : e.type = type /\ e.src = s.id /\ e.dst = d.id}
        fresh == [id |-> g.nextId, type |-> type, src |-> s.id, dst |-> d.id]
    IN  IF found # {}
        THEN [g EXCEPT !.wedges = @ \cup found]
        ELSE [g EXCEPT !.edges = @ \cup {fresh}, !.nextId = @ + 1, !.wedges = @ \cup {fresh}]

\* MERGE (s)-[:type]->(d) for every row of bound pairs
RECURSIVE MergeRelPairs(_, _, _)
MergeRelPairs(g, type, pairs) ==
    IF pairs = {} THEN g
    ELSE LET p == CHOOSE q \in pairs : TRUE
         IN  MergeRelPairs(MergeRelPair(g, type, p[1], p[2]), type, pairs \ {p})

MergeRel(g, type, srcs, dsts) == MergeRelPairs(g, type, srcs \X dsts)

\* datetime() at clock reading now
DateTime(now) == <<"datetime:", now>>

\* lines 226-233
MergePaper(g, st, now) ==
    LET m == MergeNode(g, "Paper", "zotero_key", st.zotero_key)
    IN  SetProps(SetProps(m.g, m.bound, st.properties), m.bound, "imported_at" :> DateTime(now))

\* lines 242-248
MergeAuthor(g, st) ==
    LET m == MergeNode(g, "Author", "name", st.name)
    IN  SetProps(m.g, m.bound, "last_seen_in" :> st.paper_title)

\* lines 251-258
MergeAuthoredBy(g, st) ==
    MergeRel(g, "AUTHORED_BY", Match(g, "Paper", "zotero_key", st.paper_key),
             Match(g, "Author", "name", st.author_name))

\* lines 276-280
MergeKeyword(g, st) == MergeNode(g, "Keyword", "name", st.name).g

\* lines 283-290
MergeHasKeyword(g, st) ==
    MergeRel(g, "HAS_KEYWORD", Match(g, "Paper", "zotero_key", st.paper_key),
             Match(g, "Keyword", "name", st.keyword_name))

\* lines 316-324
MergePublisher(g, st) ==
    LET m == MergeNode(g, "Publisher", "name", st.name)
    IN  MergeRel(m.g, "PUBLISHED_BY", Match(m.g, "Paper", "zotero_key", st.paper_key), m.bound)

\* lines 333-343
MergeJournal(g, st) ==
    LET m == MergeNode(g, "Journal", "name", st.name)
        s == SetProps(m.g, m.bound, "issn" :> st.issn)
    IN  MergeRel(s, "PUBLISHED_IN", Match(s, "Paper", "zotero_key", st.paper_key), m.bound)

\* lines 348-356
MergeSubject(g, st) ==
    LET m == MergeNode(g, "Subject", "name", st.name)
    IN  MergeRel(m.g, "BELONGS_TO_SUBJECT", Match(m.g, "Paper", "zotero_key", st.paper_key), m.bound)

\* session.run of one statement
RunStatement(g, st, now) ==
    CASE st.op = "MergePaper" -> MergePaper(g, st, now)
      [] st.op = "MergeAuthor" -> MergeAuthor(g, st)
      [] st.op = "MergeAuthoredBy" -> MergeAuthoredBy(g, st)
      [] st.op = "MergeKeyword" -> MergeKeyword(g, st)
      [] st.op = "MergeHasKeyword" -> MergeHasKeyword(g, st)
      [] st.op = "MergePublisher" -> MergePublisher(g, st)
      [] st.op = "MergeJournal" -> MergeJournal(g, st)
      [] st.op = "MergeSubject" -> MergeSubject(g, st)

\* the first k statements of sts, in order
RECURSIVE RunStatements(_, _, _, _)
RunStatements(g, sts, k, now) ==
    IF k = 0 THEN g
    ELSE RunStatement(RunStatements(g, sts, k - 1, now), sts[k], now)

\* MATCH (n) DETACH DELETE n
Wipe(g) == [g EXCEPT !.nodes = {}, !.edges = {}, !.props = EmptyDict]

-----------------------------------------------------------------------------
(* parse_csv *)

\* column_mapping, lines 53-71
ColumnMapping(c) ==
    CASE c = "Key" -> "zotero_key"
      [] c = "Item Type" -> "item_type"
      [] c = "Publication Year" -> "publication_year"
      [] c = "Author" -> "authors"
      [] c = "Title" -> "title"
      [] c = "Publication Title" -> "publication_title"
      [] c = "DOI" -> "doi"
      [] c = "Url" -> "url"
      [] c = "Abstract Note" -> "abstract"
      [] c = "Date" -> "date"
      [] c = "Date Added" -> "date_added"
      [] c = "Date Modified" -> "date_modified"
      [] c = "Pages" -> "pages"
      [] c = "Manual Tags" -> "manual_tags"
      [] c = "Automatic Tags" -> "auto_tags"
      [] c = "File Attachments" -> "file_attachments"
      [] c = "Extra" -> "extra_info"
      [] OTHER -> c

\* df.rename(columns=...), line 74, on one row
Rename(row) ==
    [n \in {ColumnMapping(c) : c \in DOMAIN row} |->
        row[CHOOSE c \in DOMAIN row : ColumnMapping(c) = n]]

\* fillna(''), lines 77-79: only these three columns
FillNa(row) ==
    [n \in DOMAIN row |->
        IF n \in {"authors", "manual_tags", "auto_tags"} /\ row[n] = NaN
        THEN EmptyStr ELSE row[n]]

\* lines 82-83
AddParsedExtra(row) ==
    IF "extra_info" \in DOMAIN row
    THEN Put(row, "extra_info_parsed", _parse_extra_info(row["extra_info"]))
    ELSE row

parse_csv(rows) == [i \in 1..Len(rows) |-> AddParsedExtra(FillNa(Rename(rows[i])))]

-----------------------------------------------------------------------------
(* _import_paper, _add_extra_nodes: the statements one row sends, in order *)

\* lines 306-312: the first candidate column holding a non-blank value
possible_publisher_cols == <<"Publisher", "publisher", "Publisher", "Place">>

RECURSIVE ProbePublisher(_, _)
ProbePublisher(paper_row, i) ==
    IF i > Len(possible_publisher_cols) THEN None
    ELSE LET col == possible_publisher_cols[i]
         IN  IF /\ col \in DOMAIN paper_row
                /\ NotNa(paper_row[col])
                /\ Strip(paper_row[col]) # <<>>
             THEN Strip(paper_row[col])
             ELSE ProbePublisher(paper_row, i + 1)

\* line 331: a or b
JournalOf(paper_row) ==
    IF Truthy(Get(paper_row, "Publication Title", EmptyStr))
    THEN Get(paper_row, "Publication Title", EmptyStr)
    ELSE Get(paper_row, "publication_title", EmptyStr)

\* lines 315-324
PublisherStatements(paper_row, paper_key) ==
    IF Truthy(ProbePublisher(paper_row, 1))
    THEN <<[op |-> "MergePublisher", name |-> ProbePublisher(paper_row, 1),
            paper_key |-> paper_key]>>
    ELSE <<>>

\* lines 331-343
JournalStatements(paper_row, paper_key) ==
    IF Truthy(JournalOf(paper_row)) /\ Get(paper_row, "item_type", None) = <<"journalArticle">>
    THEN <<[op |-> "MergeJournal", name |-> JournalOf(paper_row),
            issn |-> Get(paper_row, "ISSN", EmptyStr), paper_key |-> paper_key]>>
    ELSE <<>>

\* lines 346-356
SubjectStatements(paper_row, paper_key) ==
    LET major_field == Get(Get(paper_row, "extra_info_parsed", EmptyDict), "major_field", None)
    IN  IF Truthy(major_field)
        THEN <<[op |-> "MergeSubject", name |-> major_field, paper_key |-> paper_key]>>
        ELSE <<>>

_add_extra_nodes(paper_row, paper_key) ==
    PublisherStatements(paper_row, paper_key)
        \o JournalStatements(paper_row, paper_key)
        \o SubjectStatements(paper_row, paper_key)

\* line 214 subscripts the value: a float has no [:500]
AbstractRaises(paper_row) == ~IsStr(Get(paper_row, "abstract", EmptyStr))

\* lines 206-223
paper_properties(paper_row) ==
    LET base ==
          [zotero_key |-> Get(paper_row, "zotero_key", EmptyStr),
           title |-> Get(paper_row, "title", EmptyStr),
           item_type |-> Get(paper_row, "item_type", EmptyStr),
           publication_year |-> Get(paper_row, "publication_year", None),
           publication_title |-> Get(paper_row, "publication_title", EmptyStr),
           doi |-> Get(paper_row, "doi", EmptyStr),
           url |-> Get(paper_row, "url", EmptyStr),
           abstract |-> Prefix(Get(paper_row, "abstract", EmptyStr), AbstractLimit),
           date |-> Get(paper_row, "date", EmptyStr),
           pages |-> Get(paper_row, "pages", EmptyStr),
           has_pdf |-> PyBool(Truthy(Get(paper_row, "file_attachments", None)))]
        extra_info == Get(paper_row, "extra_info_parsed", EmptyDict)
    IN  IF DOMAIN extra_info # {} THEN Update(base, extra_info) ELSE base

\* lines 236-258
RECURSIVE AuthorStatements(_, _, _)
AuthorStatements(authors, title, key) ==
    IF authors = <<>> THEN <<>>
    ELSE <<[op |-> "MergeAuthor", name |-> Head(authors), paper_title |-> title],
           [op |-> "MergeAuthoredBy", paper_key |-> key, author_name |-> Head(authors)]>>
         \o AuthorStatements(Tail(authors), title, key)

\* lines 273-290
RECURSIVE KeywordStatements(_, _)
KeywordStatements(tags, key) ==
    IF tags = <<>> THEN <<>>
    ELSE <<[op |-> "MergeKeyword", name |-> Head(tags)],
           [op |-> "MergeHasKeyword", paper_key |-> key, keyword_name |-> Head(tags)]>>
         \o KeywordStatements(Tail(tags), key)

\* lines 262-268
all_tags_manual_only(paper_row) ==
    _split_tags(Get(paper_row, "manual_tags", EmptyStr))

all_tags(paper_row) ==
    _split_tags(Get(paper_row, "manual_tags", EmptyStr))
        \o _split_tags(Get(paper_row, "auto_tags", EmptyStr))

\* line 271, list(set(all_tags)): each tag once, in an order the set decides
TagOrders(paper_row) ==
    LET S == Range(all_tags(paper_row))
    IN  {q \in [1..Cardinality(S) -> S] : Range(q) = S}

\* the statements of one call of _import_paper, with all_tags in the given order
_import_paper(paper_row, tags) ==
    LET pp == paper_properties(paper_row)
    IN  <<[op |-> "MergePaper", zotero_key |-> pp.zotero_key, properties |-> pp]>>
        \o AuthorStatements(_split_authors(Get(paper_row, "authors", EmptyStr)),
                            pp.title, pp.zotero_key)
        \o KeywordStatements(tags, pp.zotero_key)
        \o _add_extra_nodes(paper_row, pp.zotero_key)

-----------------------------------------------------------------------------
(* State *)
(* raw: the rows read_csv returns; df: parse_csv's result; phase: where      *)
(* main() is ("start", "parsed", "running", "ended"); idx: rows the loop of  *)
(* import_to_neo4j has gone through; total: total_papers; clearFlag: the     *)
(* clear_existing of this run; nodes, edges, props, nextId: the database;    *)
(* clock: what datetime() returns.                                           *)
(* What a run is observed to do: attempted (row positions handed to          *)
(* _import_paper, in order), failed (positions whose error line 193 logged), *)
(* applied (position -> [sts, k]: the statements of the row and how many of  *)
(* them ran), progress (positions logged by line 190), reported (the total   *)
(* that line 195 logs, -1 before), written (nodes and edges the run's        *)
(* statements matched or created), faulted (a statement of the run raised),  *)
(* snap (the database as the run found it, and how the run before ended).    *)
(* runsLeft bounds the runs; flaky says whether session.run may raise.       *)

Graph == [nodes |-> nodes, edges |-> edges, props |-> props, nextId |-> nextId,
          wnodes |-> written.nodes, wedges |-> written.edges]

\* the database without Paper.imported_at and Author.last_seen_in
View(ns, es, ps) ==
    [nodes |-> ns, edges |-> es,
     props |-> [i \in DOMAIN ps |->
                  [k \in DOMAIN ps[i] \ {"imported_at", "last_seen_in"} |-> ps[i][k]]]]

InitWith(rows, prior, runs, unreliable) ==
    /\ raw = rows
    /\ df = <<>>
    /\ phase = "start"
    /\ idx = 0
    /\ total = 0
    /\ clearFlag = FALSE
    /\ runsLeft = runs
    /\ flaky = unreliable
    /\ nodes = prior.nodes
    /\ edges = prior.edges
    /\ props = prior.props
    /\ nextId = prior.nextId
    /\ clock = 1
    /\ attempted = <<>>
    /\ failed = {}
    /\ applied = <<>>
    /\ progress = {}
    /\ written = [nodes |-> {}, edges |-> {}]
    /\ reported = -1
    /\ snap = [view |-> View(prior.nodes, prior.edges, prior.props), hasPrev |-> FALSE,
               prevClean |-> FALSE]
    /\ faulted = FALSE

\* main(), lines 373-376: a new process parses the file
ParseCsv ==
    /\ phase \in {"start", "ended"}
    /\ runsLeft > 0
    /\ df' = parse_csv(raw)
    /\ phase' = "parsed"
    /\ UNCHANGED <<raw, idx, total, clearFlag, runsLeft, flaky, nodes, edges, props,
                   nextId, clock, attempted, failed, applied, progress, written,
                   reported, snap, faulted>>

\* lines 175-176
ClearedInverted(g, clear_existing) == IF clear_existing THEN g ELSE Wipe(g)

Cleared(g, clear_existing) == IF clear_existing THEN Wipe(g) ELSE g

\* import_to_neo4j, lines 173-181
BeginImport(clear_existing) ==
    /\ phase = "parsed"
    /\ LET g == Cleared(Graph, clear_existing)
       IN  /\ nodes' = g.nodes
           /\ edges' = g.edges
           /\ props' = g.props
    /\ clearFlag' = clear_existing
    /\ total' = Len(df)
    /\ idx' = 0
    /\ phase' = "running"
    /\ clock' = clock + 1
    /\ attempted' = <<>>
    /\ failed' = {}
    /\ applied' = <<>>
    /\ progress' = {}
    /\ written' = [nodes |-> {}, edges |-> {}]
    /\ reported' = -1
    /\ snap' = [view |-> View(nodes, edges, props), hasPrev |-> reported # -1,
                prevClean |-> ~faulted]
    /\ faulted' = FALSE
    /\ UNCHANGED <<raw, df, runsLeft, flaky, nextId>>

\* what the statements of a row leave when the first k of them ran: each session.run
\* commits on its own, and line 192 undoes nothing
RowEffectAtomic(g, sts, k, now) ==
    IF k < Len(sts) THEN g ELSE RunStatements(g, sts, k, now)

RowEffect(g, sts, k, now) == RunStatements(g, sts, k, now)

\* the except clause of lines 192-193 is inside the loop body: the loop goes on
NextIndexAbort(i, n, raised) == IF raised THEN n ELSE i + 1

NextIndex(i, n, raised) == i + 1

\* one iteration of the loop, lines 183-193: k statements of the row run; k short of all
\* of them means the next one raised (or line 214 did, before any), line 192 caught it
ImportRow ==
    /\ phase = "running"
    /\ idx < total
    /\ \E tags \in TagOrders(df[idx + 1]) :
         LET row == df[idx + 1]
             sts == IF AbstractRaises(row) THEN <<>> ELSE _import_paper(row, tags)
         IN  \E k \in 0..Len(sts) :
               LET raised == AbstractRaises(row) \/ k < Len(sts)
                   fault == ~AbstractRaises(row) /\ k < Len(sts)
                   g == RowEffect(Graph, sts, k, clock)
               IN  /\ fault => flaky
                   /\ faulted' = (faulted \/ fault)
                   /\ nodes' = g.nodes
                   /\ edges' = g.edges
                   /\ props' = g.props
                   /\ nextId' = g.nextId
                   /\ written' = [nodes |-> g.wnodes, edges |-> g.wedges]
                   /\ attempted' = Append(attempted, idx + 1)
                   /\ applied' = Append(applied, [sts |-> sts, k |-> k])
                   /\ failed' = IF raised THEN failed \cup {idx + 1} ELSE failed
                   /\ progress' = IF /\ ~raised
                                     /\ \/ (idx + 1) % ProgressEvery = 0
                                        \/ (idx + 1) = total
                                  THEN progress \cup {idx + 1} ELSE progress
                   /\ idx' = NextIndex(idx, total, raised)
    /\ UNCHANGED <<raw, df, phase, total, clearFlag, runsLeft, flaky, clock, reported, snap>>

\* line 195, and the process ends
EndImport ==
    /\ phase = "running"
    /\ idx = total
    /\ reported' = total
    /\ phase' = "ended"
    /\ runsLeft' = runsLeft - 1
    /\ UNCHANGED <<raw, df, idx, total, clearFlag, flaky, nodes, edges, props, nextId,
                   clock, attempted, failed, applied, progress, written, snap, faulted>>

Next ==
    \/ ParseCsv
    \/ \E clear_existing \in BOOLEAN : BeginImport(clear_existing)
    \/ ImportRow
    \/ EndImport

-----------------------------------------------------------------------------
(* Inputs *)

\* the sequences over alphabet of length at most n
Strings(alphabet, n) == UNION {[1..k -> alphabet] : k \in 0..n}

\* one row of the frame read_csv returns, with the columns of a Zotero export that
\* the importer reads
RawRow(key, item_type, title, publication_title, abstract, author, manual, auto, extra) ==
    [c \in {"Key", "Item Type", "Publication Year", "Author", "Title", "Publication Title",
            "DOI", "Url", "Abstract Note", "Date", "Pages", "Manual Tags", "Automatic Tags",
            "File Attachments", "Extra", "Publisher", "Place", "ISSN"} |->
        CASE c = "Key" -> key
          [] c = "Item Type" -> item_type
          [] c = "Publication Year" -> <<"2020">>
          [] c = "Author" -> author
          [] c = "Title" -> title
          [] c = "Publication Title" -> publication_title
          [] c = "DOI" -> NaN
          [] c = "Url" -> <<"u">>
          [] c = "Abstract Note" -> abstract
          [] c = "Date" -> <<"2020">>
          [] c = "Pages" -> NaN
          [] c = "Manual Tags" -> manual
          [] c = "Automatic Tags" -> auto
          [] c = "File Attachments" -> NaN
          [] c = "Extra" -> extra
          [] c = "Publisher" -> NaN
          [] c = "Place" -> NaN
          [] c = "ISSN" -> IF item_type = <<"book">> THEN NaN ELSE <<"i1">>]

\* a journal article with an author, a place and two markers, and no tags
RowArticle ==
    [RawRow(<<"k1">>, <<"journalArticle">>, <<"T1">>, <<"J1">>, <<"abs">>,
            <<"a1", ";", " ", ";">>, NaN, NaN,
            <<"download:", " ", "1", "\n", "major:", " ", "x">>)
     EXCEPT !["Place"] = <<"L1", " ">>]

\* a journal article whose Publication Title and Author cells are empty, with tags
RowNoJournal ==
    RawRow(<<"k2">>, <<"journalArticle">>, <<"T2">>, NaN, <<"abs">>,
           NaN, <<"t1">>, <<"t1", ";", "t2">>, <<"major:", "y">>)

\* a book with the key of RowArticle whose Abstract Note cell is empty
RowNoAbstract ==
    RawRow(<<"k1">>, <<"book">>, <<"T3">>, NaN, NaN, <<"a3">>, <<"t2">>, NaN, NaN)

MainRows == {RowArticle, RowNoJournal, RowNoAbstract}

\* a database that an earlier import of another file left behind
RowPrior ==
    RawRow(<<"k0">>, <<"journalArticle">>, <<"T0">>, <<"J0">>, <<"abs">>,
           <<"a0">>, <<"t1">>, NaN, NaN)

PriorGraph ==
    LET sts == _import_paper(parse_csv(<<RowPrior>>)[1], <<<<"t1">>>>)
        g == RunStatements(EmptyGraph, sts, Len(sts), 0)
    IN  [g EXCEPT !.wnodes = {}, !.wedges = {}]

\* one run over a file of up to MaxRows rows, against an empty database, over a
\* connection on which any statement may raise
Init ==
    \E n \in 1..MaxRows : \E rows \in [1..n -> MainRows] :
      InitWith(rows, EmptyGraph, 1, TRUE)

Spec == Init /\ [][Next]_vars

\* one run over a file of up to MaxRows rows, against a used database, over a
\* connection on which any statement may raise
InitClear ==
    \E n \in 1..MaxRows : \E rows \in [1..n -> MainRows] :
      InitWith(rows, PriorGraph, 1, TRUE)

SpecClear == InitClear /\ [][Next]_vars

\* MaxRuns runs over the same file, no statement raising
InitRerun ==
    \E n \in 1..MaxRows : \E rows \in [1..n -> MainRows] :
      InitWith(rows, EmptyGraph, MaxRuns, FALSE)

SpecRerun == InitRerun /\ [][Next]_vars

\* one row whose Extra cell is empty or any string over the three markers, a digit,
\* a letter, a space and a newline
ExtraAlphabet == {"download:", "CNKICite:", "major:", "1", "x", " ", "\n"}

InitExtra ==
    \E extra \in Strings(ExtraAlphabet, MaxExtraLen) \cup {NaN} :
      InitWith(<<RawRow(<<"k1">>, <<"book">>, <<"T1">>, NaN, <<"abs">>, <<"a1">>, NaN, NaN,
                        extra)>>,
               EmptyGraph, 1, FALSE)

SpecExtra == InitExtra /\ [][Next]_vars

\* one row whose tag cells are empty or any strings over two tags, the separator and
\* a space, against a database that already holds the keyword t1
TagAlphabet == {"t1", "b", ";", " "}

InitTags ==
    \E manual \in Strings(TagAlphabet, MaxManualLen) \cup {NaN} :
      \E auto \in Strings(TagAlphabet, MaxAutoLen) \cup {NaN} :
        InitWith(<<RawRow(<<"k1">>, <<"book">>, <<"T1">>, NaN, <<"abs">>, NaN, manual, auto,
                          NaN)>>,
                 PriorGraph, 1, FALSE)

SpecTags == InitTags /\ [][Next]_vars

\* the optional textual columns of a row: raw name and name after parse_csv
OptionalText ==
    {<<"Title", "title">>, <<"Publication Title", "publication_title">>, <<"DOI", "doi">>,
     <<"Url", "url">>, <<"Abstract Note", "abstract">>, <<"Date", "date">>,
     <<"Pages", "pages">>}

\* one row, journal article or book, in which each optional textual column is not in
\* the file, or is there and the cell is empty, or is there and the cell holds text
InitFields ==
    \E item_type \in {<<"journalArticle">>, <<"book">>} :
      \E present \in SUBSET {c[1] : c \in OptionalText} :
        \E filled \in SUBSET present :
          LET full == RawRow(<<"k1">>, item_type, NaN, NaN, NaN, <<"a1">>, NaN, NaN, NaN)
              cols == (DOMAIN full \ {c[1] : c \in OptionalText}) \cup present
          IN  InitWith(<<[c \in cols |-> IF c \in filled THEN <<"v">> ELSE full[c]]>>,
                       EmptyGraph, 1, FALSE)

SpecFields == InitFields /\ [][Next]_vars

\* a file of ProgressEvery or ProgressEvery + 1 rows, whose last two rows are any
RowsAround(n) ==
    {rows \in [1..n -> MainRows] : \A i \in 1..(n - 2) : rows[i] = RowArticle}

InitProgress ==
    \E n \in {ProgressEvery, ProgressEvery + 1} : \E rows \in RowsAround(n) :
      InitWith(rows, EmptyGraph, 1, FALSE)

SpecProgress == InitProgress /\ [][Next]_vars

-----------------------------------------------------------------------------
(* Vocabulary of the properties *)

\* the property a node is keyed by
KeyProp(label) == IF label = "Paper" THEN "zotero_key" ELSE "name"

\* the nodes of a label that store the given key or name
Keyed(ns, ps, label, val) ==
    {n \in ns : n.label = label /\ ps[n.id][KeyProp(label)] = val}

\* a cell that holds text
Present(row, col) == col \in DOMAIN row /\ IsStr(row[col]) /\ row[col] # EmptyStr

\* rows of the file that the run has gone through without an error logged
Succeeded == Range(attempted) \ failed

\* every marker recognised whatever the others are
EachMarkerAlone(s) == MajorStep(s, CiteStep(s, DownloadStep(s, EmptyDict)))

\* a row gone through whose item type and present publication title allow the journal
TitledArticle(name) ==
    \E i \in Range(attempted) :
      /\ Present(raw[i], "Item Type") /\ raw[i]["Item Type"] = <<"journalArticle">>
      /\ Present(raw[i], "Publication Title") /\ raw[i]["Publication Title"] = name

\* a step of the loop in which a row failed
FailedStep == phase = "running" /\ failed' # failed

\* the tokens of a tag cell, read off the string: a token is a stretch without ";"
\* that starts and ends on a non-space and has only spaces between it and the
\* separators (or the ends of the string) around it
TokensOf(v) ==
    IF ~IsStr(v) THEN {}
    ELSE {SubSeq(v, a, b) : <<a, b>> \in
            {ab \in (1..Len(v)) \X (1..Len(v)) :
               /\ ab[1] <= ab[2]
               /\ \A m \in ab[1]..ab[2] : v[m] # ";"
               /\ ~IsSpace(v[ab[1]])
               /\ ~IsSpace(v[ab[2]])
               /\ \A i \in 1..(ab[1] - 1) :
                    (\A m \in i..(ab[1] - 1) : v[m] # ";") => IsSpace(v[i])
               /\ \A i \in (ab[2] + 1)..Len(v) :
                    (\A m \in (ab[2] + 1)..i : v[m] # ";") => IsSpace(v[i])}}

\* the HAS_KEYWORD edges from Paper p to Keyword nodes named t
KeywordEdges(p, t) ==
    {e \in edges : /\ e.type = "HAS_KEYWORD"
                   /\ e.src = p.id
                   /\ \E k \in Keyed(nodes, props, "Keyword", t) : e.dst = k.id}

-----------------------------------------------------------------------------
(* What a statement is meant to leave in the database *)

NodeStatements ==
    {"MergePaper", "MergeAuthor", "MergeKeyword", "MergePublisher", "MergeJournal",
     "MergeSubject"}

EdgeStatements ==
    {"MergeAuthoredBy", "MergeHasKeyword", "MergePublisher", "MergeJournal", "MergeSubject"}

\* label and key of the node a statement merges
NodeOf(st) ==
    CASE st.op = "MergePaper" -> [label |-> "Paper", val |-> st.zotero_key]
      [] st.op = "MergeAuthor" -> [label |-> "Author", val |-> st.name]
      [] st.op = "MergeKeyword" -> [label |-> "Keyword", val |-> st.name]
      [] st.op = "MergePublisher" -> [label |-> "Publisher", val |-> st.name]
      [] st.op = "MergeJournal" -> [label |-> "Journal", val |-> st.name]
      [] st.op = "MergeSubject" -> [label |-> "Subject", val |-> st.name]

\* type and ends of the edge a statement merges
EdgeOf(st) ==
    CASE st.op = "MergeAuthoredBy" ->
           [type |-> "AUTHORED_BY", key |-> st.paper_key, label |-> "Author",
            val |-> st.author_name]
      [] st.op = "MergeHasKeyword" ->
           [type |-> "HAS_KEYWORD", key |-> st.paper_key, label |-> "Keyword",
            val |-> st.keyword_name]
      [] st.op = "MergePublisher" ->
           [type |-> "PUBLISHED_BY", key |-> st.paper_key, label |-> "Publisher",
            val |-> st.name]
      [] st.op = "MergeJournal" ->
           [type |-> "PUBLISHED_IN", key |-> st.paper_key, label |-> "Journal",
            val |-> st.name]
      [] st.op = "MergeSubject" ->
           [type |-> "BELONGS_TO_SUBJECT", key |-> st.paper_key, label |-> "Subject",
            val |-> st.name]

\* edge e is the one statement st merges
IsEdgeOf(st, e, ns, ps) ==
    /\ st.op \in EdgeStatements
    /\ e.type = EdgeOf(st).type
    /\ \E s \in Keyed(ns, ps, "Paper", EdgeOf(st).key) : e.src = s.id
    /\ \E d \in Keyed(ns, ps, EdgeOf(st).label, EdgeOf(st).val) : e.dst = d.id

\* node n is the one statement st merges
IsNodeOf(st, n, ps) ==
    /\ st.op \in NodeStatements
    /\ n.label = NodeOf(st).label
    /\ ps[n.id][KeyProp(n.label)] = NodeOf(st).val

\* the database holds what statement st merges
InGraph(st, ns, es, ps) ==
    /\ st.op \in NodeStatements => \E n \in ns : IsNodeOf(st, n, ps)
    /\ st.op \in EdgeStatements => \E e \in es : IsEdgeOf(st, e, ns, ps)

-----------------------------------------------------------------------------
(* C1: running the import again on the same file, clear flag off, no statement  *)
(* raising in either run, leaves the nodes, the edges and every property other  *)
(* than Paper.imported_at and Author.last_seen_in as the run before left them.   *)

C1_Idempotent ==
    (phase = "ended" /\ snap.hasPrev /\ snap.prevClean /\ ~clearFlag /\ ~faulted)
        => View(nodes, edges, props) = snap.view

-----------------------------------------------------------------------------
(* C2: at most one Paper node per key, at most one Author, Keyword, Publisher,   *)
(* Journal or Subject node per name, and at most one edge of a type between a    *)
(* Paper and a related node.                                                     *)

C2_Unique ==
    /\ \A n1, n2 \in nodes :
         (n1.label = n2.label
            /\ props[n1.id][KeyProp(n1.label)] = props[n2.id][KeyProp(n2.label)])
         => n1 = n2
    /\ \A e1, e2 \in edges :
         (e1.type = e2.type /\ e1.src = e2.src /\ e1.dst = e2.dst) => e1 = e2

-----------------------------------------------------------------------------
(* C4: a row in which an optional textual field is missing gets the empty string *)
(* for that field, raises no error, and its Paper node is upserted.              *)

C4_MissingFieldsDefault ==
    \A i \in 1..Len(df) : \A c \in OptionalText :
      (c[1] \notin DOMAIN raw[i] \/ raw[i][c[1]] = NaN)
      => /\ ~AbstractRaises(df[i])
         /\ paper_properties(df[i])[c[2]] = EmptyStr
         /\ (i \in Range(attempted) /\ ~faulted)
              => (i \notin failed /\ Keyed(nodes, props, "Paper", raw[i]["Key"]) # {})

-----------------------------------------------------------------------------
(* C5: the parser returns exactly the facts of the markers that appear with a    *)
(* well-formed value, each marker on its own.                                    *)

C5_MarkersIndependent ==
    \A i \in 1..Len(df) :
      IsStr(raw[i]["Extra"]) => df[i]["extra_info_parsed"] = EachMarkerAlone(raw[i]["Extra"])

-----------------------------------------------------------------------------
(* C7: a progress signal after each row whose position is a multiple of 10 and   *)
(* after the last row, whether or not the row succeeded.                         *)

C7_ProgressSignals ==
    \A i \in Range(attempted) :
      (i % ProgressEvery = 0 \/ i = total) => i \in progress

-----------------------------------------------------------------------------
(* C9: a Journal node and a PUBLISHED_IN edge only for a row whose item type is  *)
(* journalArticle and whose publication title is present.                        *)

C9_JournalOnlyIfTitled ==
    /\ \A n \in written.nodes : n.label = "Journal" => TitledArticle(props[n.id]["name"])
    /\ \A e \in written.edges :
         e.type = "PUBLISHED_IN" => TitledArticle(props[e.dst]["name"])

-----------------------------------------------------------------------------
(* C3: an error raised while a row is processed is caught; every row of the file *)
(* is handed to _import_paper, in input order; every row that did not fail has   *)
(* all its statements run and what they merge is in the database when the run    *)
(* ends; the loop can always go on to its next row and then to the end of the    *)
(* run, which reports the number of rows of the file.                            *)

C3_FailureIsolation ==
    /\ attempted = [i \in 1..idx |-> i]
    /\ phase = "running" =>
         /\ idx <= total
         /\ idx < total => ENABLED ImportRow
         /\ idx = total => ENABLED EndImport
    /\ phase = "ended" =>
         /\ idx = Len(raw)
         /\ reported = Len(raw)
         /\ \A i \in 1..Len(raw) :
              i \notin failed =>
                LET a == applied[i]
                IN  /\ a.k = Len(a.sts)
                    /\ a.sts[1].op = "MergePaper"
                    /\ a.sts[1].zotero_key = raw[i]["Key"]
                    /\ \A j \in 1..Len(a.sts) : InGraph(a.sts[j], nodes, edges, props)

\* a run that ended in which a row failed part-way and a later row went through
C3_Witness ==
    /\ phase = "ended"
    /\ \E i \in failed : \E j \in Succeeded : i < j /\ applied[i].k > 0

-----------------------------------------------------------------------------
(* C10: when a row fails at one of its statements, what the statements before it *)
(* merged stays in the database, nothing that was there is removed, nothing of   *)
(* the statements from the failing one on is added, and the loop goes on to the  *)
(* next row.                                                                     *)

C10_NoRollback ==
    [][FailedStep =>
         LET a == applied'[idx + 1]
         IN  /\ failed' = failed \cup {idx + 1}
             /\ nodes \subseteq nodes'
             /\ edges \subseteq edges'
             /\ \A j \in 1..a.k : InGraph(a.sts[j], nodes', edges', props')
             /\ a.k >= 1 =>
                  \A n \in Keyed(nodes', props', "Paper", a.sts[1].zotero_key) :
                    \A f \in DOMAIN a.sts[1].properties :
                      a.sts[1].properties[f] # None =>
                        props'[n.id][f] = a.sts[1].properties[f]
             /\ \A n \in nodes' \ nodes : \E j \in 1..a.k : IsNodeOf(a.sts[j], n, props')
             /\ \A e \in edges' \ edges :
                  \E j \in 1..a.k : IsEdgeOf(a.sts[j], e, nodes', props')
             /\ a.k = 0 => (nodes' = nodes /\ edges' = edges /\ props' = props)
             /\ phase' = "running"
             /\ idx' = idx + 1
    ]_vars

\* a row failed after its Paper and one more statement, with statements left over
C10_Witness ==
    \E i \in failed : applied[i].k >= 2 /\ applied[i].k < Len(applied[i].sts)

-----------------------------------------------------------------------------
(* C6: with the clear flag set the database is wiped before the first row and    *)
(* never after, so that all through the run and at its end it holds only nodes   *)
(* and edges that the run's own statements merged; with the flag unset every     *)
(* node and edge the run found is still there.                                   *)

C6_ClearFlag ==
    phase \in {"running", "ended"} =>
      /\ written.nodes \subseteq nodes
      /\ written.edges \subseteq edges
      /\ clearFlag => (nodes \subseteq written.nodes /\ edges \subseteq written.edges)
      /\ ~clearFlag => (snap.view.nodes \subseteq nodes /\ snap.view.edges \subseteq edges)

\* a run with the flag set that found a used database and ended with a filled one
C6_Witness ==
    /\ phase = "ended"
    /\ clearFlag
    /\ snap.view.nodes # {}
    /\ snap.view.edges # {}
    /\ nodes # {}
    /\ edges # {}

-----------------------------------------------------------------------------
(* C8: after a row is imported its Paper has exactly one HAS_KEYWORD edge to     *)
(* each distinct non-empty trimmed token of its manual and automatic tag         *)
(* strings, to one Keyword node per token, and none to any other keyword.        *)

C8_TagUnion ==
    (phase = "ended" /\ Len(raw) = 1 /\ failed = {}) =>
      LET want == TokensOf(raw[1]["Manual Tags"]) \cup TokensOf(raw[1]["Automatic Tags"])
          papers == Keyed(nodes, props, "Paper", raw[1]["Key"])
      IN  /\ Cardinality(papers) = 1
          /\ \A t \in want : Cardinality(Keyed(nodes, props, "Keyword", t)) = 1
          /\ \A p \in papers :
               /\ \A t \in want : Cardinality(KeywordEdges(p, t)) = 1
               /\ \A e \in edges :
                    (e.type = "HAS_KEYWORD" /\ e.src = p.id)
                    => \E t \in want : e \in KeywordEdges(p, t)

\* a row imported whose two tag strings share a token and hold another one
C8_Witness ==
    /\ phase = "ended"
    /\ failed = {}
    /\ IsStr(raw[1]["Manual Tags"])
    /\ TokensOf(raw[1]["Manual Tags"]) \cap TokensOf(raw[1]["Automatic Tags"]) # {}
    /\ Cardinality(TokensOf(raw[1]["Manual Tags"])) >= 2

====
